---------------------------- MODULE Spec2Model ----------------------------
(***************************************************************************)
(* A model of the two scripts of the repository:                           *)
(*                                                                         *)
(*   queries.js    executeQueries(): one try/catch/finally around a fixed  *)
(*                 sequence of awaited calls on the "books" collection of  *)
(*                 plp_bookstore, then client.close() in the finally.      *)
(*   connection.js connectDB(): one awaited mongoose.connect, then a log.  *)
(*                                                                         *)
(* A step of the model is what JavaScript runs between two awaits: the     *)
(* awaited call settles, its result is bound and logged, and the next call *)
(* is issued.  The collection and its indexes live in the server; the      *)
(* effect of each call on them is that of the MongoDB operation the code   *)
(* names (find, updateMany with $mul, deleteMany, aggregate, createIndex,  *)
(* indexes, explain).                                                      *)
(*                                                                         *)
(* Prices are exact decimals m / 10^e (normalised); the rounding of        *)
(* IEEE-754 doubles is not modelled.  Where the server leaves an order open *)
(* (a find without sort, equal sort keys, the order of $group's output) the *)
(* model chooses between the two scan directions of the collection.        *)
(***************************************************************************)
EXTENDS Integers, Sequences, FiniteSets, TLC

(***************************************************************************)
(* Bounds of the model.                                                    *)
(***************************************************************************)
MaxBooks == 6         \* catalogue records the initial collection is drawn from
MaxBulk == 8          \* bulk records the initial collection may also hold
MaxRerunBooks == 4    \* catalogue records, for the specification with reruns
MaxRuns == 2          \* runs of executeQueries in succession (SpecRerun)
MaxCalls == 10        \* calls of connectDB (SpecConn)

(***************************************************************************)
(* Constants of the program.                                               *)
(***************************************************************************)
DB_NAME == "plp_bookstore"
COLLECTION_NAME == "books"
PAGE_SIZE == 5
YearThreshold == 1950
Top3Limit == 3
TopAuthorsLimit == 5
TopAuthorByBooksLimit == 1
DecadeSpan == 10
Fantasy == "Fantasy"
TheAlchemist == "The Alchemist"

(***************************************************************************)
(* Decimal numbers: [m, e] stands for m / 10^e, with no trailing zero in m *)
(* when e > 0, so that equal numbers are equal records.                    *)
(***************************************************************************)
RECURSIVE Pow10(_)
Pow10(n) == IF n = 0 THEN 1 ELSE 10 * Pow10(n - 1)

RECURSIVE Norm(_)
Norm(d) ==
    IF d.e > 0 /\ d.m % 10 = 0
    THEN Norm([m |-> d.m \div 10, e |-> d.e - 1])
    ELSE d

Dec(m, e) == Norm([m |-> m, e |-> e])

DecMul(a, b) == Norm([m |-> a.m * b.m, e |-> a.e + b.e])

DecAdd(a, b) ==
    LET e == IF a.e > b.e THEN a.e ELSE b.e
    IN  Norm([m |-> a.m * Pow10(e - a.e) + b.m * Pow10(e - b.e), e |-> e])

DecLess(a, b) == a.m * Pow10(b.e) < b.m * Pow10(a.e)

\* The factor of { $mul: { price: 1.1 } } and the price of the last explain.
MulFactor == Dec(11, 1)
ExplainPrice == Dec(1099, 2)

(***************************************************************************)
(* Book records.  The scripts define no schema; a record has the fields    *)
(* the queries read.  Titles are compared in the order of TitleOrder (the  *)
(* binary collation of the strings).                                       *)
(***************************************************************************)
Book(id, title, author, genre, price, year, stock) ==
    [_id |-> id, title |-> title, author |-> author, genre |-> genre,
     price |-> price, published_year |-> year, in_stock |-> stock]

\* Records of which the initial collection holds any subset.
Catalogue ==
    << Book(1, "The Hobbit", "Tolkien", Fantasy, Dec(10, 0), 1951, TRUE),
       Book(2, "The Sword in the Stone", "White", Fantasy, Dec(20, 0), 1938, FALSE),
       Book(3, "The Hobbit", "Rateliff", Fantasy, Dec(0, 0), 1950, TRUE),
       Book(4, "The Fellowship of the Ring", "Tolkien", Fantasy, Dec(30, 0), 1954, TRUE),
       Book(5, "Nineteen Eighty-Four", "Orwell", "Dystopian", Dec(1099, 2), 1949, TRUE),
       Book(6, TheAlchemist, "Coelho", "Fiction", Dec(125, 1), 1988, FALSE),
       Book(7, "Emma", "Austen", "Romance", Dec(75, 1), 1815, FALSE),
       Book(8, "Animal Farm", "Orwell", "Dystopian", Dec(85, 1), 1945, TRUE) >>

\* Records of which the initial collection holds the first k, for any k.
Bulk ==
    << Book(101, "Dune", "Herbert", "SciFi", Dec(1099, 2), 1965, TRUE),
       Book(102, "Neuromancer", "Gibson", "Cyberpunk", Dec(20, 0), 1984, TRUE),
       Book(103, "Beloved", "Morrison", "Historical", Dec(125, 1), 1987, TRUE),
       Book(104, "Carrie", "King", "Horror", Dec(9, 0), 1974, FALSE),
       Book(105, "Ubik", "Dick", "SciFi", Dec(14, 0), 1969, TRUE),
       Book(106, "Contact", "Sagan", "SciFi", Dec(85, 1), 1985, FALSE),
       Book(107, "Solaris", "Lem", "SciFi", Dec(75, 1), 1961, TRUE),
       Book(108, "Kindred", "Butler", "SciFi", Dec(11, 0), 1979, TRUE),
       Book(109, "Hyperion", "Simmons", "SciFi", Dec(15, 0), 1989, TRUE) >>

TitleOrder ==
    << "Animal Farm", "Beloved", "Carrie", "Contact", "Dune", "Emma",
       "Hyperion", "Kindred", "Neuromancer", "Nineteen Eighty-Four", "Solaris",
       "The Alchemist", "The Fellowship of the Ring", "The Hobbit",
       "The Sword in the Stone", "Ubik" >>

TitleRank(t) == CHOOSE i \in 1..Len(TitleOrder) : TitleOrder[i] = t

TitleLess(a, b) == TitleRank(a.title) < TitleRank(b.title)

FirstBooks(n) == { Catalogue[i] : i \in 1..n }

FirstBulk(k) == { Bulk[i] : i \in 1..k }

(***************************************************************************)
(* Sequences.                                                              *)
(***************************************************************************)
Min(a, b) == IF a < b THEN a ELSE b

\* The elements of s at the positions idx, in their order in s.
Pick(s, idx) ==
    [k \in 1..Cardinality(idx) |->
        s[CHOOSE i \in idx : Cardinality({j \in idx : j < i}) = k - 1]]

Filter(s, Test(_)) == Pick(s, {i \in 1..Len(s) : Test(s[i])})

Map(s, F(_)) == [i \in 1..Len(s) |-> F(s[i])]

\* cursor.skip(n)
Skip(s, n) == Pick(s, {i \in 1..Len(s) : i > n})

\* cursor.limit(n), { $limit: n }
Limit(s, n) == Pick(s, {i \in 1..Len(s) : i <= n})

\* A sort by Less that keeps the order of s among equal keys.
SortBy(s, Less(_, _)) ==
    LET Before(i) == {j \in 1..Len(s) :
                        Less(s[j], s[i]) \/ (~Less(s[i], s[j]) /\ j < i)}
    IN  [k \in 1..Len(s) |->
            s[CHOOSE i \in 1..Len(s) : Cardinality(Before(i)) = k - 1]]

RECURSIVE DecSum(_)
DecSum(s) == IF s = <<>> THEN Dec(0, 0) ELSE DecAdd(Head(s), DecSum(Tail(s)))


RECURSIVE Digits(_)
Digits(n) == IF n < 10 THEN <<n>> ELSE Append(Digits(n \div 10), n % 10)

\* The first occurrence of each value of keys, in the order of keys.
FirstOccurrences(keys) ==
    Pick(keys, {i \in 1..Len(keys) : \A j \in 1..(i - 1) : keys[j] # keys[i]})

(***************************************************************************)
(* The operations of the collection, as functions of its content coll (a   *)
(* set of records) and of the direction rev in which the server scans it.  *)
(***************************************************************************)
Scan(coll, rev) ==
    [k \in 1..Cardinality(coll) |->
        CHOOSE b \in coll :
            Cardinality({c \in coll : IF rev THEN c._id > b._id
                                             ELSE c._id < b._id}) = k - 1]

\* { projection: { title: 1, author: 1, price: 1, _id: 0 } }
Project(b) == [title |-> b.title, author |-> b.author, price |-> b.price]

\* find({ genre: "Fantasy" }, projection).toArray()
FantasyFilter(b) == b.genre = Fantasy

FindFantasy(coll, rev) == Map(Filter(Scan(coll, rev), FantasyFilter), Project)

\* Mutant of MulPrice: $inc in place of $mul.
MulPriceInc(price) == DecAdd(price, MulFactor)

\* updateMany({ genre: "Fantasy" }, { $mul: { price: 1.1 } })
MulPrice(price) == DecMul(price, MulFactor)

UpdateFantasyColl(coll) ==
    { IF FantasyFilter(b) THEN [b EXCEPT !.price = MulPrice(@)] ELSE b : b \in coll }

\* Mutant of UpdateFantasyResult: matchedCount reported as modifiedCount.
UpdateFantasyResultMatched(coll) ==
    [matchedCount |-> Cardinality({b \in coll : FantasyFilter(b)}),
     modifiedCount |-> Cardinality({b \in coll : FantasyFilter(b)})]

\* The server counts a matched document as modified when the update changes it:
\* a price of 0 stays 0 under $mul.
UpdateFantasyResult(coll) ==
    [matchedCount |-> Cardinality({b \in coll : FantasyFilter(b)}),
     modifiedCount |-> Cardinality({b \in coll : FantasyFilter(b) /\ MulPrice(b.price) # b.price})]

\* Mutant of OldFilter: $lte in place of $lt.
OldFilterLte(b) == b.published_year <= YearThreshold

\* deleteMany({ published_year: { $lt: 1950 } })
OldFilter(b) == b.published_year < YearThreshold

DeleteOldColl(coll) == {b \in coll : ~OldFilter(b)}

DeleteOldResult(coll) == [deletedCount |-> Cardinality({b \in coll : OldFilter(b)})]

\* find({ in_stock: true, published_year: { $gt: 1950 } }, projection).toArray()
AfterYear == 1950

InStockFilter(b) == b.in_stock /\ b.published_year > AfterYear

FindInStockAfter1950(coll, rev) == Map(Filter(Scan(coll, rev), InStockFilter), Project)

\* sort({ price: -1 }), sort({ price: 1 }), sort({ title: 1 })
PriceDesc(a, b) == DecLess(b.price, a.price)

PriceAsc(a, b) == DecLess(a.price, b.price)

\* find({}, projection).sort({ price: -1 }).limit(3).toArray()
FindTop3(coll, rev) == Map(Limit(SortBy(Scan(coll, rev), PriceDesc), Top3Limit), Project)

\* find({}, projection).sort({ title: 1 }).skip(n).limit(PAGE_SIZE).toArray()
FindPage(coll, rev, n) ==
    Map(Limit(Skip(SortBy(Scan(coll, rev), TitleLess), n), PAGE_SIZE), Project)

\* Mutant of FindPage2: the second page skips one record too few.
FindPage2Short(coll, rev) == FindPage(coll, rev, PAGE_SIZE - 1)

FindPage1(coll, rev) == FindPage(coll, rev, 0)

FindPage2(coll, rev) == FindPage(coll, rev, PAGE_SIZE)

\* find({}, projection).sort({ price: 1 }) and sort({ price: -1 })
FindAsc(coll, rev) == Map(SortBy(Scan(coll, rev), PriceAsc), Project)

FindDesc(coll, rev) == Map(SortBy(Scan(coll, rev), PriceDesc), Project)

\* { $avg: "$price" }: the sum over the count, as a fraction num / den.
Avg(prices) ==
    LET sum == DecSum(prices)
    IN  [num |-> sum.m, den |-> Pow10(sum.e) * Len(prices)]

AvgDesc(g, h) == h.avgPrice.num * g.avgPrice.den < g.avgPrice.num * h.avgPrice.den

AuthorOf(b) == b.author

GenreOf(b) == b.genre

PriceOf(b) == b.price

\* { $group: { _id: key, avgPrice: { $avg: "$price" }, totalBooks: { $sum: 1 } } }
GroupAvg(docs, keys) ==
    LET ids == FirstOccurrences(keys)
    IN  [g \in 1..Len(ids) |->
            LET members == Pick(docs, {i \in 1..Len(docs) : keys[i] = ids[g]})
            IN  [_id |-> ids[g], avgPrice |-> Avg(Map(members, PriceOf)),
                 totalBooks |-> Len(members)]]

\* group by author, { $sort: { avgPrice: -1 } }, { $limit: 5 }
AggTopAuthors(coll, rev) ==
    LET docs == Scan(coll, rev)
    IN  Limit(SortBy(GroupAvg(docs, Map(docs, AuthorOf)), AvgDesc), TopAuthorsLimit)

\* Mutant of AggAvgPriceByGenre: the { $limit: 5 } of the pipeline above copied.
AggAvgPriceByGenreLimited(coll, rev) ==
    LET docs == Scan(coll, rev)
    IN  Limit(SortBy(GroupAvg(docs, Map(docs, GenreOf)), AvgDesc), TopAuthorsLimit)

\* group by genre, { $sort: { avgPrice: -1 } }
AggAvgPriceByGenre(coll, rev) ==
    LET docs == Scan(coll, rev)
    IN  SortBy(GroupAvg(docs, Map(docs, GenreOf)), AvgDesc)

\* { $group: { _id: "$author", bookCount: { $sum: 1 } } }, sort bookCount -1, limit 1
BookCountDesc(g, h) == h.bookCount < g.bookCount

AggTopAuthorByBooks(coll, rev) ==
    LET docs == Scan(coll, rev)
        keys == Map(docs, AuthorOf)
        ids == FirstOccurrences(keys)
        groups == [g \in 1..Len(ids) |->
                     [_id |-> ids[g],
                      bookCount |-> Cardinality({i \in 1..Len(docs) : keys[i] = ids[g]})]]
    IN  Limit(SortBy(groups, BookCountDesc), TopAuthorByBooksLimit)

\* { $concat: [{ $toString: { $subtract: [year, { $mod: [year, 10] }] } }, "s"] }
DecadeOf(b) ==
    [digits |-> Digits(b.published_year - (b.published_year % DecadeSpan)),
     suffix |-> "s"]

\* The order of the strings, character by character: "s" sorts after every
\* digit, and as every label ends with it no label is a prefix of another.
DecadeChars(d) == Append(d.digits, 10)

LexLess(u, v) ==
    \E i \in 1..Min(Len(u), Len(v)) :
        /\ \A j \in 1..(i - 1) : u[j] = v[j]
        /\ u[i] < v[i]

DecadeAsc(g, h) == LexLess(DecadeChars(g._id), DecadeChars(h._id))

\* { $group: { _id: decade, count: { $sum: 1 } } }, { $sort: { _id: 1 } }
AggBooksByDecade(coll, rev) ==
    LET docs == Scan(coll, rev)
        keys == Map(docs, DecadeOf)
        ids == FirstOccurrences(keys)
        groups == [g \in 1..Len(ids) |->
                     [_id |-> ids[g],
                      count |-> Cardinality({i \in 1..Len(docs) : keys[i] = ids[g]})]]
    IN  SortBy(groups, DecadeAsc)

(***************************************************************************)
(* Indexes: the list of key patterns of the collection, in creation order. *)
(***************************************************************************)
IdIndex == <<[field |-> "_id", dir |-> 1]>>

TitleIndex == <<[field |-> "title", dir |-> 1]>>

\* Mutant of AuthorYearIndex: the second field of the key left out.
AuthorOnlyIndex == <<[field |-> "author", dir |-> 1]>>

AuthorYearIndex == <<[field |-> "author", dir |-> 1], [field |-> "published_year", dir |-> 1]>>

\* createIndex(key): a key pattern that exists already is left as it is.
CreateIndex(ix, key) ==
    IF \E i \in 1..Len(ix) : ix[i] = key THEN ix ELSE Append(ix, key)

\* indexes()
ListIndexes(ix) == [i \in 1..Len(ix) |-> [key |-> ix[i]]]

\* find({ field: value }).explain("executionStats").executionStats
Explain(coll, ix, field, value) ==
    LET indexed == \E i \in 1..Len(ix) : ix[i][1].field = field
        hits == Cardinality({b \in coll : b[field] = value})
    IN  << [stage |-> IF indexed THEN "IXSCAN" ELSE "COLLSCAN",
            nReturned |-> hits,
            totalKeysExamined |-> IF indexed THEN hits ELSE 0,
            totalDocsExamined |-> IF indexed THEN hits ELSE Cardinality(coll)] >>

(***************************************************************************)
(* State.                                                                  *)
(*   books, indexes   the collection and its indexes (in the server)       *)
(*   client           the MongoClient: "new", "connected", "closed"        *)
(*   pc               the await executeQueries is suspended at, or "init", *)
(*                    "returned", "rejected"                               *)
(*   inflight         the calls issued and not yet settled                 *)
(*   issued           the calls issued by this run, in order               *)
(*   log              what this run printed, one tag per statement group   *)
(*   error            the call whose rejection the catch received          *)
(*   updateFantasy, deleteOld, page1, page2                                *)
(*                    the constants of that name                           *)
(*   result           the array bound last by any other await: each is     *)
(*                    read only by the console.log that follows it         *)
(*   run              the number of this run of the script                 *)
(*   atStart, orig    the collection when this run, the first run, began   *)
(*   history          the writes that succeeded, over all runs             *)
(*   connPc, readyState, calls, attempts, connLog, surfaced                *)
(*                    connectDB and the mongoose connection                *)
(***************************************************************************)
VARIABLES books, indexes, client, pc, inflight, issued, log, error,
          updateFantasy, deleteOld, page1, page2, result,
          run, atStart, orig, history,
          connPc, readyState, calls, attempts, connLog, surfaced

dbVars == <<books, indexes>>
runVars == <<client, pc, inflight, issued, log, error,
             updateFantasy, deleteOld, page1, page2, result, run, atStart>>
ghostVars == <<orig, history>>
connVars == <<connPc, readyState, calls, attempts, connLog, surfaced>>
vars == <<dbVars, runVars, ghostVars, connVars>>

\* The awaited calls of the try block, in the order of the text.
Order ==
    << "connect", "fantasyBooks", "updateFantasy", "deleteOld",
       "inStockAfter1950", "top3Books", "page1", "page2",
       "topAuthors", "avgPriceByGenre", "topAuthorByBooks", "booksByDecade",
       "createIndexTitle", "createIndexAuthorYear", "indexes",
       "booksAsc", "booksDesc", "indexedExplain", "nonIndexedExplain" >>

Close == "close"

NoResult == [name |-> "none", value |-> <<>>]

NoCount == [set |-> FALSE, count |-> 0]

\* The state of a process that has loaded queries.js and not yet called
\* executeQueries.
FreshRun ==
    /\ client = "new"
    /\ pc = "init"
    /\ inflight = {}
    /\ issued = <<>>
    /\ log = <<>>
    /\ error = "none"
    /\ updateFantasy = NoCount
    /\ deleteOld = NoCount
    /\ page1 = <<>>
    /\ page2 = <<>>
    /\ result = NoResult

ConnIdle ==
    /\ connPc = "idle"
    /\ readyState = "disconnected"
    /\ calls = 0
    /\ attempts = 0
    /\ connLog = 0
    /\ surfaced = 0

InitWith(content, bulk) ==
    /\ books \in { some \cup FirstBulk(k) : some \in SUBSET content, k \in 0..bulk }
    /\ indexes = <<IdIndex>>
    /\ FreshRun
    /\ run = 1
    /\ atStart = books
    /\ orig = books
    /\ history = <<>>
    /\ ConnIdle

Init == InitWith(FirstBooks(MaxBooks), MaxBulk)

InitRerun == InitWith(FirstBooks(MaxRerunBooks), 0)

InitConn == InitWith({}, 0)

(***************************************************************************)
(* executeQueries.                                                         *)
(***************************************************************************)
\* Mutant of Resume: the call next is issued while op is still awaited.
ResumeUnawaited(op, next, tags) ==
    /\ pc = op
    /\ op \in inflight
    /\ inflight' = inflight \cup {next}
    /\ issued' = Append(issued, next)
    /\ log' = log \o tags
    /\ pc' = next
    /\ UNCHANGED <<error, run, atStart, orig, connVars>>

\* The await of call op settles with a value, the statements up to the next
\* await print tags, and the call next is issued and awaited.
Resume(op, next, tags) ==
    /\ pc = op
    /\ op \in inflight
    /\ inflight' = (inflight \ {op}) \cup {next}
    /\ issued' = Append(issued, next)
    /\ log' = log \o tags
    /\ pc' = next
    /\ UNCHANGED <<error, run, atStart, orig, connVars>>

\* executeQueries(): the first log and client.connect().
Start ==
    /\ pc = "init"
    /\ inflight' = {"connect"}
    /\ issued' = <<"connect">>
    /\ log' = <<"attempting">>
    /\ pc' = "connect"
    /\ atStart' = books
    /\ UNCHANGED <<dbVars, client, error, updateFantasy, deleteOld, page1, page2,
                   result, run, ghostVars, connVars>>

ConnectOk ==
    /\ Resume("connect", "fantasyBooks", <<"connected">>)
    /\ client' = "connected"
    /\ UNCHANGED <<dbVars, updateFantasy, deleteOld, page1, page2, result, history>>

\* A read: the array is bound to the constant name and printed.
Read(op, next, value) ==
    /\ Resume(op, next, <<op>>)
    /\ result' = [name |-> op, value |-> value]
    /\ UNCHANGED <<dbVars, client, updateFantasy, deleteOld, page1, page2, history>>

FantasyBooksOk ==
    \E rev \in BOOLEAN :
        Read("fantasyBooks", "updateFantasy", FindFantasy(books, rev))

UpdateFantasyOk ==
    /\ Resume("updateFantasy", "deleteOld", <<"updateFantasy">>)
    /\ books' = UpdateFantasyColl(books)
    /\ updateFantasy' = [set |-> TRUE, count |-> UpdateFantasyResult(books).modifiedCount]
    /\ history' = Append(history, "mul")
    /\ UNCHANGED <<indexes, client, deleteOld, page1, page2, result>>

DeleteOldOk ==
    /\ Resume("deleteOld", "inStockAfter1950", <<"deleteOld">>)
    /\ books' = DeleteOldColl(books)
    /\ deleteOld' = [set |-> TRUE, count |-> DeleteOldResult(books).deletedCount]
    /\ history' = Append(history, "del")
    /\ UNCHANGED <<indexes, client, updateFantasy, page1, page2, result>>

InStockAfter1950Ok ==
    \E rev \in BOOLEAN :
        Read("inStockAfter1950", "top3Books", FindInStockAfter1950(books, rev))

Top3BooksOk ==
    \E rev \in BOOLEAN : Read("top3Books", "page1", FindTop3(books, rev))

Page1Ok ==
    \E rev \in BOOLEAN :
        /\ Resume("page1", "page2", <<"page1">>)
        /\ page1' = FindPage1(books, rev)
        /\ UNCHANGED <<dbVars, client, updateFantasy, deleteOld, page2, result, history>>

Page2Ok ==
    \E rev \in BOOLEAN :
        /\ Resume("page2", "topAuthors", <<"page2">>)
        /\ page2' = FindPage2(books, rev)
        /\ UNCHANGED <<dbVars, client, updateFantasy, deleteOld, page1, result, history>>

TopAuthorsOk ==
    \E rev \in BOOLEAN :
        Read("topAuthors", "avgPriceByGenre", AggTopAuthors(books, rev))

AvgPriceByGenreOk ==
    \E rev \in BOOLEAN :
        Read("avgPriceByGenre", "topAuthorByBooks", AggAvgPriceByGenre(books, rev))

\* if (topAuthorByBooks.length > 0) ... else ...
TopAuthorByBooksOk ==
    \E rev \in BOOLEAN :
        LET top == AggTopAuthorByBooks(books, rev)
        IN  /\ Resume("topAuthorByBooks", "booksByDecade",
                      IF Len(top) > 0 THEN <<"topAuthorByBooks">> ELSE <<"noAuthors">>)
            /\ result' = [name |-> "topAuthorByBooks", value |-> top]
            /\ UNCHANGED <<dbVars, client, updateFantasy, deleteOld, page1, page2, history>>

BooksByDecadeOk ==
    \E rev \in BOOLEAN :
        Read("booksByDecade", "createIndexTitle", AggBooksByDecade(books, rev))

CreateIndexTitleOk ==
    /\ Resume("createIndexTitle", "createIndexAuthorYear", <<"createIndexTitle">>)
    /\ indexes' = CreateIndex(indexes, TitleIndex)
    /\ history' = Append(history, "indexTitle")
    /\ UNCHANGED <<books, client, updateFantasy, deleteOld, page1, page2, result>>

CreateIndexAuthorYearOk ==
    /\ Resume("createIndexAuthorYear", "indexes", <<"createIndexAuthorYear">>)
    /\ indexes' = CreateIndex(indexes, AuthorYearIndex)
    /\ history' = Append(history, "indexAuthorYear")
    /\ UNCHANGED <<books, client, updateFantasy, deleteOld, page1, page2, result>>

IndexesOk == Read("indexes", "booksAsc", ListIndexes(indexes))

BooksAscOk ==
    \E rev \in BOOLEAN : Read("booksAsc", "booksDesc", FindAsc(books, rev))

BooksDescOk ==
    \E rev \in BOOLEAN : Read("booksDesc", "indexedExplain", FindDesc(books, rev))

IndexedExplainOk ==
    Read("indexedExplain", "nonIndexedExplain",
         Explain(books, indexes, "title", TheAlchemist))

\* The last await of the try block: its log, "Query execution complete", and
\* the finally's client.close().
NonIndexedExplainOk ==
    /\ Resume("nonIndexedExplain", Close, <<"nonIndexedExplain", "complete">>)
    /\ result' = [name |-> "nonIndexedExplain",
                  value |-> Explain(books, indexes, "price", ExplainPrice)]
    /\ UNCHANGED <<dbVars, client, updateFantasy, deleteOld, page1, page2, history>>

\* Mutant of Catch: the connection is closed in the try block only, so a
\* failed run returns without client.close().
CatchWithoutClose ==
    /\ \E i \in 1..Len(Order) : pc = Order[i]
    /\ pc \in inflight
    /\ error' = pc
    /\ inflight' = inflight \ {pc}
    /\ log' = Append(log, "error")
    /\ pc' = "returned"
    /\ UNCHANGED <<dbVars, client, issued, updateFantasy, deleteOld, page1, page2,
                   result, run, atStart, ghostVars, connVars>>

\* Mutant of Catch: an empty catch block.
CatchSilent ==
    /\ \E i \in 1..Len(Order) : pc = Order[i]
    /\ pc \in inflight
    /\ error' = pc
    /\ inflight' = (inflight \ {pc}) \cup {Close}
    /\ issued' = Append(issued, Close)
    /\ pc' = Close
    /\ UNCHANGED <<dbVars, client, log, updateFantasy, deleteOld, page1, page2, result,
                   run, atStart, ghostVars, connVars>>

\* Any await of the try block rejects: catch (error) logs it and the finally
\* issues client.close().  The rejected call leaves the server as it was.
Catch ==
    /\ \E i \in 1..Len(Order) : pc = Order[i]
    /\ pc \in inflight
    /\ error' = pc
    /\ inflight' = (inflight \ {pc}) \cup {Close}
    /\ issued' = Append(issued, Close)
    /\ log' = Append(log, "error")
    /\ pc' = Close
    /\ UNCHANGED <<dbVars, client, updateFantasy, deleteOld, page1, page2, result,
                   run, atStart, ghostVars, connVars>>

\* await client.close() settles: "Connection closed" and the function returns.
CloseOk ==
    /\ pc = Close
    /\ Close \in inflight
    /\ inflight' = inflight \ {Close}
    /\ client' = "closed"
    /\ log' = Append(log, "closed")
    /\ pc' = "returned"
    /\ UNCHANGED <<dbVars, issued, error, updateFantasy, deleteOld, page1, page2,
                   result, run, atStart, ghostVars, connVars>>

\* await client.close() rejects inside the finally: nothing catches it, and
\* the promise of executeQueries rejects.
CloseFail ==
    /\ pc = Close
    /\ Close \in inflight
    /\ inflight' = inflight \ {Close}
    /\ pc' = "rejected"
    /\ UNCHANGED <<dbVars, client, issued, log, error, updateFantasy, deleteOld,
                   page1, page2, result, run, atStart, ghostVars, connVars>>

\* The script is run again, in a new process, against the same collection.
Rerun ==
    /\ pc \in {"returned", "rejected"}
    /\ run < MaxRuns
    /\ run' = run + 1
    /\ client' = "new"
    /\ inflight' = {"connect"}
    /\ issued' = <<"connect">>
    /\ log' = <<"attempting">>
    /\ error' = "none"
    /\ updateFantasy' = NoCount
    /\ deleteOld' = NoCount
    /\ page1' = <<>>
    /\ page2' = <<>>
    /\ result' = NoResult
    /\ pc' = "connect"
    /\ atStart' = books
    /\ UNCHANGED <<dbVars, ghostVars, connVars>>

(***************************************************************************)
(* connectDB.                                                              *)
(***************************************************************************)
\* connectDB(): mongoose.connect(process.env.MONGODB_URI) is called and awaited.
ConnectDB ==
    /\ connPc \in {"idle", "returned", "threw"}
    /\ calls < MaxCalls
    /\ calls' = calls + 1
    /\ attempts' = attempts + 1
    /\ readyState' = "connecting"
    /\ connPc' = "awaiting"
    /\ UNCHANGED <<dbVars, runVars, ghostVars, connLog, surfaced>>

\* The await settles: the right operand of the comma, console.log, runs.
ConnectDBOk ==
    /\ connPc = "awaiting"
    /\ readyState' = "connected"
    /\ connLog' = connLog + 1
    /\ connPc' = "returned"
    /\ UNCHANGED <<dbVars, runVars, ghostVars, calls, attempts, surfaced>>

\* Mutant of ConnectDBFail: the rejection is caught and connect tried again.
ConnectDBRetry ==
    /\ connPc = "awaiting"
    /\ attempts' = attempts + 1
    /\ UNCHANGED <<dbVars, runVars, ghostVars, connPc, readyState, calls, connLog, surfaced>>

\* The await rejects: connectDB has no try, its promise rejects with the error.
ConnectDBFail ==
    /\ connPc = "awaiting"
    /\ readyState' = "disconnected"
    /\ surfaced' = surfaced + 1
    /\ connPc' = "threw"
    /\ UNCHANGED <<dbVars, runVars, ghostVars, calls, attempts, connLog>>

(***************************************************************************)
(* Specifications.                                                         *)
(***************************************************************************)
Next ==
    \/ Start
    \/ ConnectOk
    \/ FantasyBooksOk
    \/ UpdateFantasyOk
    \/ DeleteOldOk
    \/ InStockAfter1950Ok
    \/ Top3BooksOk
    \/ Page1Ok
    \/ Page2Ok
    \/ TopAuthorsOk
    \/ AvgPriceByGenreOk
    \/ TopAuthorByBooksOk
    \/ BooksByDecadeOk
    \/ CreateIndexTitleOk
    \/ CreateIndexAuthorYearOk
    \/ IndexesOk
    \/ BooksAscOk
    \/ BooksDescOk
    \/ IndexedExplainOk
    \/ NonIndexedExplainOk
    \/ Catch
    \/ CloseOk
    \/ CloseFail

\* One run of executeQueries on every collection drawn from the catalogue.
Spec == Init /\ [][Next]_vars

NextRerun == Next \/ Rerun

\* Runs in succession against the same collection.
SpecRerun == InitRerun /\ [][NextRerun]_vars

NextConn == ConnectDB \/ ConnectDBOk \/ ConnectDBFail

\* Calls of connectDB.
SpecConn == InitConn /\ [][NextConn]_vars

(***************************************************************************)
(* Properties.                                                             *)
(***************************************************************************)
Count(s, x) == Cardinality({i \in 1..Len(s) : s[i] = x})

RECURSIVE SumSeq(_)
SumSeq(s) == IF s = <<>> THEN 0 ELSE Head(s) + SumSeq(Tail(s))

Elems(s) == {s[i] : i \in 1..Len(s)}

Logged(tag) == tag \in Elems(log)

Returned == pc \in {"returned", "rejected"}

\* new = old * 11 / 10, on the fractions themselves.
TimesFactor(new, old) == new.m * 10 * Pow10(old.e) = old.m * 11 * Pow10(new.e)

RECURSIVE Pow(_, _)
Pow(x, n) == IF n = 0 THEN 1 ELSE x * Pow(x, n - 1)

\* new = old * (11 / 10)^n
TimesFactorPow(new, old, n) ==
    new.m * Pow(10, n) * Pow10(old.e) = old.m * Pow(11, n) * Pow10(new.e)

\* The record of the collection c with the identifier of a.
Same(c, a) == CHOOSE b \in c : b._id = a._id

Present(c, a) == \E b \in c : b._id = a._id

(* C1: in every run of executeQueries, whether connect and every step      *)
(* succeed or any of them fails, client.close is invoked exactly once; it  *)
(* is invoked only when no other call is in flight, and no call is issued  *)
(* after it.                                                               *)
C1_ReleasedOnceAfterLast ==
    /\ Count(issued, Close) <= 1
    /\ Returned => Count(issued, Close) = 1
    /\ Close \in Elems(issued) => issued[Len(issued)] = Close
    /\ Close \in inflight => inflight = {Close}
    /\ pc \in Elems(Order) => inflight = {pc} /\ Close \notin Elems(issued)

C1_Witness ==
    /\ pc = "returned"
    /\ error = "deleteOld"
    /\ Count(issued, Close) = 1
    /\ client = "closed"

(* C2: when connect or step k fails, no later step is issued, the one      *)
(* catch logs the error once, whatever the step, and the run goes straight *)
(* to client.close; "Query execution complete" is logged only when every   *)
(* step succeeded.                                                         *)
C2_FailureAbortsToRelease ==
    /\ error # "none" =>
          /\ \E k \in 1..Len(Order) :
                /\ Order[k] = error
                /\ issued = Append(SubSeq(Order, 1, k), Close)
          /\ Count(log, "error") = 1
          /\ ~Logged("complete")
          /\ \/ log[Len(log)] = "error"
             \/ /\ log[Len(log)] = "closed"
                /\ log[Len(log) - 1] = "error"
    /\ error = "none" => ~Logged("error")
    /\ Logged("complete") =>
          /\ error = "none"
          /\ issued = Append(Order, Close)
          /\ \A i \in 2..Len(Order) :
                \/ Logged(Order[i])
                \/ Order[i] = "topAuthorByBooks" /\ Logged("noAuthors")

C2_Witness ==
    /\ error = "indexes"
    /\ pc = Close
    /\ issued[Len(issued) - 1] = "indexes"

(* C3: at most one call is in flight at any moment, each call is issued    *)
(* only after the one before it has settled, and the calls are issued in   *)
(* the order of the text: connect, the reads, updates, aggregations and    *)
(* index operations of Order, close.                                       *)
C3_OneInFlightInOrder ==
    /\ Cardinality(inflight) <= 1
    /\ issued # <<>> => inflight \subseteq {issued[Len(issued)]}
    /\ \E k \in 0..Len(Order) :
          \/ issued = SubSeq(Order, 1, k)
          \/ k >= 1 /\ issued = Append(SubSeq(Order, 1, k), Close)

C3_Witness ==
    /\ pc = "returned"
    /\ issued = Append(Order, Close)
    /\ inflight = {}

(* C4: once deleteMany({ published_year: { $lt: 1950 } }) has succeeded,   *)
(* in every later state of the run no record of the collection has a       *)
(* published_year below 1950, every record that had one of 1950 or more is *)
(* still there, and deletedCount is the number of records removed.         *)
C4_DeleteRemovesExactlyOld ==
    deleteOld.set =>
        /\ \A b \in books : b.published_year >= 1950
        /\ \A a \in atStart : a.published_year >= 1950 => Present(books, a)
        /\ deleteOld.count = Cardinality(atStart) - Cardinality(books)

C4_Witness ==
    /\ deleteOld.set
    /\ deleteOld.count = 2
    /\ pc = "booksAsc"
    /\ \E b \in books : b.published_year = 1950

DistinctTitles(c) == \A a, b \in c : a.title = b.title => a = b

Max(a, b) == IF a > b THEN a ELSE b

(* C6, as claimed: the two pages are disjoint and together hold exactly    *)
(* the records of the collection (so that, sorted again, they are the full *)
(* set sorted by title).                                                   *)
C6_Original ==
    Logged("page2") =>
        /\ \A i \in 1..Len(page1) : \A j \in 1..Len(page2) : page1[i] # page2[j]
        /\ Len(page1) + Len(page2) = Cardinality(books)
        /\ Elems(page1 \o page2) = {Project(b) : b \in books}

(* C6, amended: page 1 holds the first min(5, n) and page 2 the next       *)
(* min(5, n - 5) places of the collection sorted by title, so their titles *)
(* ascend across both pages; when the titles of the collection are         *)
(* pairwise distinct the pages are disjoint and their concatenation is the *)
(* first min(10, n) records of the sorted set, which is the full set when  *)
(* and only when n <= 10.                                                  *)
C6_PagesAreFirstTen ==
    Logged("page2") =>
        LET n == Cardinality(books)
            both == page1 \o page2
            all == {Project(b) : b \in books}
        IN  /\ Len(page1) = Min(PAGE_SIZE, n)
            /\ Len(page2) = Min(PAGE_SIZE, Max(n - PAGE_SIZE, 0))
            /\ Elems(both) \subseteq all
            /\ \A i \in 1..Len(both) : \A j \in 1..Len(both) :
                  i < j => ~TitleLess(both[j], both[i])
            /\ DistinctTitles(books) =>
                  /\ \A i \in 1..Len(both) : \A j \in 1..Len(both) :
                        i < j => TitleLess(both[i], both[j])
                  /\ \A d \in all \ Elems(both) :
                        \A i \in 1..Len(both) : TitleLess(both[i], d)
                  /\ (Elems(both) = all) <=> (n <= 2 * PAGE_SIZE)

\* More than ten records with distinct titles: two full pages, one record left.
C6_Witness ==
    /\ Logged("page2")
    /\ DistinctTitles(books)
    /\ Cardinality(books) = 2 * PAGE_SIZE + 1
    /\ Len(page1) = PAGE_SIZE
    /\ Len(page2) = PAGE_SIZE

Authors(c) == {b.author : b \in c}

(* C7, as claimed: in each of the four grouping pipelines the counts of    *)
(* the returned groups sum to the number of records of the collection.     *)
C7_Original ==
    /\ result.name = "topAuthors" =>
          SumSeq([i \in 1..Len(result.value) |-> result.value[i].totalBooks])
             = Cardinality(books)
    /\ result.name = "avgPriceByGenre" =>
          SumSeq([i \in 1..Len(result.value) |-> result.value[i].totalBooks])
             = Cardinality(books)
    /\ result.name = "topAuthorByBooks" =>
          SumSeq([i \in 1..Len(result.value) |-> result.value[i].bookCount])
             = Cardinality(books)
    /\ result.name = "booksByDecade" =>
          SumSeq([i \in 1..Len(result.value) |-> result.value[i].count])
             = Cardinality(books)

(* C7, amended: the counts of the returned groups sum to the number of     *)
(* records in the pipelines by genre and by decade, which return every     *)
(* group; the pipelines by author return the first 5 groups and the first  *)
(* group, each with the number of records of its author, so their counts   *)
(* sum to the number of records when and only when the collection has at   *)
(* most 5 authors, at most 1 author.                                       *)
C7_GroupCounts ==
    LET n == Cardinality(books)
        v == result.value
        ByAuthor(a) == Cardinality({b \in books : b.author = a})
    IN  /\ result.name = "avgPriceByGenre" =>
              /\ SumSeq([i \in 1..Len(v) |-> v[i].totalBooks]) = n
              /\ \A i \in 1..Len(v) :
                    v[i].totalBooks = Cardinality({b \in books : b.genre = v[i]._id})
        /\ result.name = "booksByDecade" =>
              /\ SumSeq([i \in 1..Len(v) |-> v[i].count]) = n
              /\ {v[i]._id.digits : i \in 1..Len(v)}
                    = {Digits(10 * (b.published_year \div 10)) : b \in books}
        /\ result.name = "topAuthors" =>
              /\ Len(v) = Min(TopAuthorsLimit, Cardinality(Authors(books)))
              /\ \A i \in 1..Len(v) : v[i].totalBooks = ByAuthor(v[i]._id)
              /\ \A i, j \in 1..Len(v) : i # j => v[i]._id # v[j]._id
              /\ (SumSeq([i \in 1..Len(v) |-> v[i].totalBooks]) = n)
                    <=> (Cardinality(Authors(books)) <= TopAuthorsLimit)
        /\ result.name = "topAuthorByBooks" =>
              /\ Len(v) = Min(TopAuthorByBooksLimit, Cardinality(Authors(books)))
              /\ \A i \in 1..Len(v) : v[i].bookCount = ByAuthor(v[i]._id)
              /\ \A a \in Authors(books) : \A i \in 1..Len(v) :
                    ByAuthor(a) <= v[i].bookCount
              /\ (SumSeq([i \in 1..Len(v) |-> v[i].bookCount]) = n)
                    <=> (Cardinality(Authors(books)) <= TopAuthorByBooksLimit)

\* Six authors or more: five groups come back, and the counts fall short.
C7_Witness ==
    /\ result.name = "topAuthors"
    /\ Cardinality(Authors(books)) > TopAuthorsLimit
    /\ Len(result.value) = TopAuthorsLimit
    /\ SumSeq([i \in 1..Len(result.value) |-> result.value[i].totalBooks])
          < Cardinality(books)

(* C8: once both createIndex calls have succeeded, the listing indexes()   *)
(* returns holds exactly the default index on _id, the index on title and  *)
(* the compound index on (author, published_year), on the first run and on *)
(* every rerun against the same collection.                                *)
C8_ListingIsTheThreeIndexes ==
    result.name = "indexes" =>
        /\ Len(result.value) = 3
        /\ {result.value[i].key : i \in 1..Len(result.value)}
              = { <<[field |-> "_id", dir |-> 1]>>,
                  <<[field |-> "title", dir |-> 1]>>,
                  <<[field |-> "author", dir |-> 1],
                    [field |-> "published_year", dir |-> 1]>> }

C8_Witness ==
    /\ run = 2
    /\ result.name = "indexes"
    /\ Count(history, "indexTitle") = 2
    /\ Count(history, "indexAuthorYear") = 2

(* C9: over runs in succession against the same collection, each run whose *)
(* updateMany succeeds multiplies the price of every Fantasy record by 1.1 *)
(* again (1.1^n after n of them, so a price other than 0 never returns to  *)
(* its value), while a deleteMany after the first deletes 0 records and a  *)
(* createIndex after the first adds no index.                              *)
C9_PricesCompoundRestSettles ==
    LET n == Count(history, "mul")
    IN  /\ \A b \in books : b.genre = "Fantasy" =>
              /\ TimesFactorPow(b.price, Same(orig, b).price, n)
              /\ (n >= 1 /\ Same(orig, b).price.m # 0) =>
                    DecLess(Same(orig, b).price, b.price)
        /\ (deleteOld.set /\ Count(history, "del") >= 2) => deleteOld.count = 0
        /\ Count(indexes, TitleIndex) <= 1
        /\ Count(indexes, AuthorYearIndex) <= 1
        /\ Count(history, "indexTitle") >= 1 => Count(indexes, TitleIndex) = 1
        /\ Count(history, "indexAuthorYear") >= 1 =>
              /\ Count(indexes, AuthorYearIndex) = 1
              /\ Len(indexes) = 3

\* Two complete runs: 10 has become 12.1, the second delete removed nothing.
C9_Witness ==
    /\ run = 2
    /\ pc = "returned"
    /\ Logged("complete")
    /\ Count(history, "mul") = 2
    /\ \E b \in books : /\ Same(orig, b).price = [m |-> 10, e |-> 0]
                        /\ b.price = [m |-> 121, e |-> 1]
    /\ Cardinality(orig) > Cardinality(books)
    /\ deleteOld.count = 0
    /\ Len(indexes) = 3

(* C10: every call of connectDB makes exactly one connection attempt; when *)
(* it succeeds the connection is established before the success message is *)
(* logged, when it fails the error reaches the caller, nothing is logged   *)
(* and no second attempt is made.                                          *)
C10_OneAttemptPerCall ==
    /\ attempts = calls
    /\ connLog + surfaced + (IF connPc = "awaiting" THEN 1 ELSE 0) = calls
    /\ connPc = "idle" => calls = 0
    /\ connPc = "awaiting" => readyState = "connecting"
    /\ connPc = "returned" => readyState = "connected" /\ connLog >= 1
    /\ connPc = "threw" => readyState = "disconnected" /\ surfaced >= 1

C10_Witness ==
    /\ connPc = "threw"
    /\ calls = 1
    /\ attempts = 1
    /\ connLog = 0
    /\ surfaced = 1

=============================================================================
